---- MODULE Spec2Model ----
(***************************************************************************)
(* A model of md2jsx's conversion core (src/src/lib.rs): the HTML tag      *)
(* recognizer parse_html_tag and the tree builder parse, which folds the   *)
(* pulldown-cmark event stream into a forest of Node values with an        *)
(* explicit open-node stack.                                               *)
(*                                                                         *)
(* Strings that the code inspects character by character (raw HTML         *)
(* fragments) are sequences of one-character strings; Str turns such a     *)
(* sequence into the string stored in a Node.                              *)
(***************************************************************************)
EXTENDS Integers, Sequences, FiniteSets, TLC

\* ---------------------------------------------------------------- bounds
\* Number of events of one pass in the narrow specification Spec.
MaxEvents == 4
\* Number of events of one pass in the wide specification SpecWide.
MaxWideEvents == 2

\* ------------------------------------------------------------ characters
Letters ==
    {"a","b","c","d","e","f","g","h","i","j","k","l","m",
     "n","o","p","q","r","s","t","u","v","w","x","y","z",
     "A","B","C","D","E","F","G","H","I","J","K","L","M",
     "N","O","P","Q","R","S","T","U","V","W","X","Y","Z"}

Digits == {"0","1","2","3","4","5","6","7","8","9"}

\* The class [a-zA-Z0-9-] of TAG_RE and ATTR_RE.
NameChars == Letters \cup Digits \cup {"-"}

\* The white space that str::trim strips and \s matches (ASCII part).
WhiteSpace == {" ", "\t", "\n", "\r", "\f"}

RECURSIVE Str(_)
\* to_string: the characters of a fragment as one string.
Str(s) == IF s = <<>> THEN "" ELSE Head(s) \o Str(Tail(s))

RECURSIVE TrimStart(_)
TrimStart(s) ==
    IF s # <<>> /\ Head(s) \in WhiteSpace THEN TrimStart(Tail(s)) ELSE s

RECURSIVE TrimEnd(_)
TrimEnd(s) ==
    IF s # <<>> /\ s[Len(s)] \in WhiteSpace
    THEN TrimEnd(SubSeq(s, 1, Len(s) - 1))
    ELSE s

\* str::trim
Trim(s) == TrimEnd(TrimStart(s))

\* str::starts_with("</")
StartsWithClose(s) == Len(s) >= 2 /\ s[1] = "<" /\ s[2] = "/"

\* str::ends_with(">")
EndsWithGt(s) == Len(s) >= 1 /\ s[Len(s)] = ">"

RECURSIVE RunLen(_, _, _)
\* Length of the longest run of characters of class cls in s starting at i:
\* what a greedy cls+ or cls* consumes there.
RunLen(s, i, cls) ==
    IF i <= Len(s) /\ s[i] \in cls THEN 1 + RunLen(s, i + 1, cls) ELSE 0

RECURSIVE RunLenNot(_, _, _)
\* Length of the longest run of characters outside cls in s starting at i.
RunLenNot(s, i, cls) ==
    IF i <= Len(s) /\ s[i] \notin cls THEN 1 + RunLenNot(s, i + 1, cls) ELSE 0

\* ------------------------------------------------------------ JSON values
\* serde_json::Value::String(s)
JsonString(s) == <<"String", s>>

\* serde_json::Value::Bool(true)
JsonTrue == <<"Bool">>

\* HashMap::new()
EmptyProps == [k \in {} |-> JsonTrue]

\* HashMap::insert: a later insert of the same key replaces the value.
Insert(m, k, v) == [x \in (DOMAIN m) \cup {k} |-> IF x = k THEN v ELSE m[x]]

\* ------------------------------------------------------------------ Node
\* Node::Element { tag, props, children }
Element(tag, props, children) ==
    [type |-> "element", tag |-> tag, props |-> props, children |-> children]

\* Node::Text { content }
Text(content) == [type |-> "text", content |-> content]

\* ------------------------------------------------------------ recognizer
\* TAG_RE = ^<([a-zA-Z0-9-]+)([^>]*?)(/?)>$ applied to s.  Group 1 is greedy
\* and takes the longest run of name characters; group 2 is lazy and group 3
\* greedy, so a "/" right before the final ">" goes to group 3.
TagReCaptures(s) ==
    IF /\ Len(s) >= 3
       /\ s[1] = "<"
       /\ s[Len(s)] = ">"
       /\ s[2] \in NameChars
       /\ \A i \in 2..(Len(s) - 1) : s[i] # ">"
    THEN LET n    == RunLen(s, 2, NameChars)
             rest == SubSeq(s, 2 + n, Len(s) - 1)
             sl   == rest # <<>> /\ rest[Len(rest)] = "/"
         IN  [matched |-> TRUE,
              g1 |-> SubSeq(s, 2, 1 + n),
              g2 |-> IF sl THEN SubSeq(rest, 1, Len(rest) - 1) ELSE rest,
              g3 |-> IF sl THEN <<"/">> ELSE <<>>]
    ELSE [matched |-> FALSE]

\* Index of the first character of s at or after i that is in cls, or 0.
FirstIn(s, i, cls) ==
    IF \E p \in i..Len(s) : s[p] \in cls
    THEN CHOOSE p \in i..Len(s) :
            /\ s[p] \in cls
            /\ \A q \in i..(p - 1) : s[q] \notin cls
    ELSE 0

\* One match of ATTR_RE =
\*   ([a-zA-Z0-9-]+)(?:=(?:"([^"]*)"|'([^']*)'|([^>\s]+)))?
\* whose key starts at p: the key, the value of the first of groups 2, 3, 4
\* that took part (hasValue FALSE when none did), and the index after the
\* match.
AttrMatchAt(s, p) ==
    LET e  == p + RunLen(s, p, NameChars)
        v  == e + 1
        dq == IF v <= Len(s) /\ s[v] = "\"" THEN FirstIn(s, v + 1, {"\""}) ELSE 0
        sq == IF v <= Len(s) /\ s[v] = "'" THEN FirstIn(s, v + 1, {"'"}) ELSE 0
        bl == RunLenNot(s, v, WhiteSpace \cup {">"})
        key == Str(SubSeq(s, p, e - 1))
    IN  IF e <= Len(s) /\ s[e] = "=" /\ dq # 0
        THEN [key |-> key, hasValue |-> TRUE,
              value |-> Str(SubSeq(s, v + 1, dq - 1)), next |-> dq + 1]
        ELSE IF e <= Len(s) /\ s[e] = "=" /\ sq # 0
        THEN [key |-> key, hasValue |-> TRUE,
              value |-> Str(SubSeq(s, v + 1, sq - 1)), next |-> sq + 1]
        ELSE IF e <= Len(s) /\ s[e] = "=" /\ bl > 0
        THEN [key |-> key, hasValue |-> TRUE,
              value |-> Str(SubSeq(s, v, v + bl - 1)), next |-> v + bl]
        ELSE [key |-> key, hasValue |-> FALSE, value |-> "", next |-> e]

RECURSIVE AttrCapturesIter(_, _)
\* ATTR_RE.captures_iter(attrs_str): the successive non-overlapping leftmost
\* matches from index i on.
AttrCapturesIter(s, i) ==
    LET p == FirstIn(s, i, NameChars)
    IN  IF p = 0
        THEN <<>>
        ELSE LET m == AttrMatchAt(s, p)
             IN  <<m>> \o AttrCapturesIter(s, m.next)

RECURSIVE InsertAllFirstWins(_, _)
\* InsertAll that keeps the first value of a key written twice.
InsertAllFirstWins(props, ms) ==
    IF ms = <<>>
    THEN props
    ELSE InsertAllFirstWins(
            IF Head(ms).key \in DOMAIN props
            THEN props
            ELSE Insert(props, Head(ms).key,
                        IF Head(ms).hasValue
                        THEN JsonString(Head(ms).value)
                        ELSE JsonTrue),
            Tail(ms))

RECURSIVE InsertAll(_, _)
\* The loop of parse_html_tag over the attribute matches: props.insert for
\* each match in order.
InsertAll(props, ms) ==
    IF ms = <<>>
    THEN props
    ELSE InsertAll(Insert(props, Head(ms).key,
                          IF Head(ms).hasValue
                          THEN JsonString(Head(ms).value)
                          ELSE JsonTrue),
                   Tail(ms))

\* Option::None
None == [some |-> FALSE]

\* Some((tag_name, props, is_self_closing))
Some(tag_name, props, is_self_closing) ==
    [some |-> TRUE, tag_name |-> tag_name, props |-> props,
     is_self_closing |-> is_self_closing]

\* fn parse_html_tag(html: &str)
parse_html_tag(html) ==
    LET h    == Trim(html)
        caps == TagReCaptures(h)
    IN  IF caps.matched
        THEN Some(Str(caps.g1),
                  InsertAll(EmptyProps, AttrCapturesIter(caps.g2, 1)),
                  caps.g3 # <<>>)
        ELSE IF StartsWithClose(h) /\ EndsWithGt(h)
        THEN Some(Str(Trim(SubSeq(h, 3, Len(h) - 1))), EmptyProps, FALSE)
        ELSE None

\* ------------------------------------------------------------- builder
VARIABLES
    allowed_tags,   \* options.allowed_tags, as the set of its entries
    stack,          \* the open-node stack; the last entry is the top
    root,           \* the root forest built so far
    consumed,       \* the events the loop has handled so far, in order
    pc,             \* "loop" while parse iterates, "done" once it returned
    result          \* the forest parse returned

vars == <<allowed_tags, stack, root, consumed, pc, result>>

\* StartNode without the arms of the table constructs, which then take the
\* default arm.
StartNodeNoTable(tag) ==
    CASE tag[1] = "Heading" ->
            Element("h" \o ToString(tag[2]), EmptyProps, <<>>)
      [] tag[1] = "Paragraph" -> Element("p", EmptyProps, <<>>)
      [] tag[1] = "Emphasis" -> Element("em", EmptyProps, <<>>)
      [] tag[1] = "Strong" -> Element("strong", EmptyProps, <<>>)
      [] tag[1] = "Link" ->
            Element("a", Insert(EmptyProps, "href", JsonString(tag[2])), <<>>)
      [] tag[1] = "List" ->
            Element(IF tag[2] THEN "ol" ELSE "ul", EmptyProps, <<>>)
      [] tag[1] = "Item" -> Element("li", EmptyProps, <<>>)
      [] tag[1] = "Strikethrough" -> Element("del", EmptyProps, <<>>)
      [] tag[1] = "FootnoteDefinition" ->
            Element("div",
                    Insert(Insert(EmptyProps, "id", JsonString("fn-" \o tag[2])),
                           "className", JsonString("footnote-definition")),
                    <<>>)
      [] OTHER -> Element("div", EmptyProps, <<>>)

\* The Element a Start event builds (the inner match of Event::Start).
StartNode(tag) ==
    CASE tag[1] = "Heading" ->
            Element("h" \o ToString(tag[2]), EmptyProps, <<>>)
      [] tag[1] = "Paragraph" -> Element("p", EmptyProps, <<>>)
      [] tag[1] = "Emphasis" -> Element("em", EmptyProps, <<>>)
      [] tag[1] = "Strong" -> Element("strong", EmptyProps, <<>>)
      [] tag[1] = "Link" ->
            Element("a", Insert(EmptyProps, "href", JsonString(tag[2])), <<>>)
      [] tag[1] = "List" ->
            Element(IF tag[2] THEN "ol" ELSE "ul", EmptyProps, <<>>)
      [] tag[1] = "Item" -> Element("li", EmptyProps, <<>>)
      [] tag[1] = "Table" -> Element("table", EmptyProps, <<>>)
      [] tag[1] = "TableHead" -> Element("thead", EmptyProps, <<>>)
      [] tag[1] = "TableRow" -> Element("tr", EmptyProps, <<>>)
      [] tag[1] = "TableCell" -> Element("td", EmptyProps, <<>>)
      [] tag[1] = "Strikethrough" -> Element("del", EmptyProps, <<>>)
      [] tag[1] = "FootnoteDefinition" ->
            Element("div",
                    Insert(Insert(EmptyProps, "id", JsonString("fn-" \o tag[2])),
                           "className", JsonString("footnote-definition")),
                    <<>>)
      [] OTHER -> Element("div", EmptyProps, <<>>)

\* PushChild that puts the new child first.
PushChildFront(parent, node) ==
    IF parent.type = "element"
    THEN [parent EXCEPT !.children = <<node>> \o @]
    ELSE parent

\* if let Node::Element { children, .. } = parent { children.push(node) }
PushChild(parent, node) ==
    IF parent.type = "element"
    THEN [parent EXCEPT !.children = Append(@, node)]
    ELSE parent

\* The placement every handler repeats: root.push(node) when the stack is
\* empty, otherwise push node onto the children of stack.last_mut().
Place(st, rt, node) ==
    IF st = <<>>
    THEN [stack |-> st, root |-> Append(rt, node)]
    ELSE [stack |-> [st EXCEPT ![Len(st)] = PushChild(@, node)], root |-> rt]

\* PopPlace that hands every popped node to the root forest.
PopPlaceToRoot(st, rt) ==
    IF st = <<>>
    THEN [stack |-> st, root |-> rt]
    ELSE [stack |-> SubSeq(st, 1, Len(st) - 1), root |-> Append(rt, st[Len(st)])]

\* PopPlace that pops and forgets the popped node.
PopPlaceLost(st, rt) ==
    IF st = <<>>
    THEN [stack |-> st, root |-> rt]
    ELSE [stack |-> SubSeq(st, 1, Len(st) - 1), root |-> rt]

\* if let Some(node) = stack.pop() { place node } : nothing when empty.
PopPlace(st, rt) ==
    IF st = <<>>
    THEN [stack |-> st, root |-> rt]
    ELSE Place(SubSeq(st, 1, Len(st) - 1), rt, st[Len(st)])

\* The node of Event::Code.
CodeNode(code) == Element("code", EmptyProps, <<Text(code)>>)

\* FootnoteRefNode whose link lacks the fragment mark "#".
FootnoteRefNodeNoHash(label) ==
    Element("sup", EmptyProps,
            <<Element("a",
                      Insert(Insert(EmptyProps, "href",
                                    JsonString("fn-" \o label)),
                             "className", JsonString("footnote-ref")),
                      <<Text(label)>>)>>)

\* The node of Event::FootnoteReference.
FootnoteRefNode(label) ==
    Element("sup", EmptyProps,
            <<Element("a",
                      Insert(Insert(EmptyProps, "href",
                                    JsonString("#fn-" \o label)),
                             "className", JsonString("footnote-ref")),
                      <<Text(label)>>)>>)

\* HtmlStep without the allow-list test: every recognized tag is promoted.
HtmlStepUnfiltered(st, rt, allowed, html) ==
    LET r == parse_html_tag(html)
    IN  IF r.some
        THEN IF StartsWithClose(html)
             THEN PopPlace(st, rt)
             ELSE IF r.is_self_closing
                  THEN Place(st, rt, Element(r.tag_name, r.props, <<>>))
                  ELSE [stack |-> Append(st, Element(r.tag_name, r.props, <<>>)),
                        root |-> rt]
        ELSE Place(st, rt, Text(Str(html)))

\* HtmlStep keeping the trimmed fragment, not the fragment as delivered, as
\* the text of a rejected or unrecognized tag.
HtmlStepTrimmedText(st, rt, allowed, html) ==
    LET r == parse_html_tag(html)
    IN  IF r.some
        THEN IF r.tag_name \in allowed
             THEN IF StartsWithClose(html)
                  THEN PopPlace(st, rt)
                  ELSE IF r.is_self_closing
                       THEN Place(st, rt, Element(r.tag_name, r.props, <<>>))
                       ELSE [stack |-> Append(st, Element(r.tag_name, r.props, <<>>)),
                             root |-> rt]
             ELSE Place(st, rt, Text(Str(Trim(html))))
        ELSE Place(st, rt, Text(Str(Trim(html))))

\* HtmlStep pushing every promoted tag, self-closing or not.
HtmlStepPushSelfClosing(st, rt, allowed, html) ==
    LET r == parse_html_tag(html)
    IN  IF r.some
        THEN IF r.tag_name \in allowed
             THEN IF StartsWithClose(html)
                  THEN PopPlace(st, rt)
                  ELSE [stack |-> Append(st, Element(r.tag_name, r.props, <<>>)),
                        root |-> rt]
             ELSE Place(st, rt, Text(Str(html)))
        ELSE Place(st, rt, Text(Str(html)))

\* HtmlStep that opens a rejected tag as a Text entry of the stack.
HtmlStepPushRejected(st, rt, allowed, html) ==
    LET r == parse_html_tag(html)
    IN  IF r.some
        THEN IF r.tag_name \in allowed
             THEN IF StartsWithClose(html)
                  THEN PopPlace(st, rt)
                  ELSE IF r.is_self_closing
                       THEN Place(st, rt, Element(r.tag_name, r.props, <<>>))
                       ELSE [stack |-> Append(st, Element(r.tag_name, r.props, <<>>)),
                             root |-> rt]
             ELSE [stack |-> Append(st, Text(Str(html))), root |-> rt]
        ELSE Place(st, rt, Text(Str(html)))

\* HtmlStep with strict nesting: a closing tag pops only an element that
\* carries its name.
HtmlStepStrictClose(st, rt, allowed, html) ==
    LET r == parse_html_tag(html)
    IN  IF r.some
        THEN IF r.tag_name \in allowed
             THEN IF StartsWithClose(html)
                  THEN IF st # <<>> /\ st[Len(st)].tag = r.tag_name
                       THEN PopPlace(st, rt)
                       ELSE [stack |-> st, root |-> rt]
                  ELSE IF r.is_self_closing
                       THEN Place(st, rt, Element(r.tag_name, r.props, <<>>))
                       ELSE [stack |-> Append(st, Element(r.tag_name, r.props, <<>>)),
                             root |-> rt]
             ELSE Place(st, rt, Text(Str(html)))
        ELSE Place(st, rt, Text(Str(html)))

\* The arm Event::Html(html) | Event::InlineHtml(html) as a function of the
\* stack and the root forest.
HtmlStep(st, rt, allowed, html) ==
    LET r == parse_html_tag(html)
    IN  IF r.some
        THEN IF r.tag_name \in allowed
             THEN IF StartsWithClose(html)
                  THEN PopPlace(st, rt)
                  ELSE IF r.is_self_closing
                       THEN Place(st, rt, Element(r.tag_name, r.props, <<>>))
                       ELSE [stack |-> Append(st, Element(r.tag_name, r.props, <<>>)),
                             root |-> rt]
             ELSE Place(st, rt, Text(Str(html)))
        ELSE Place(st, rt, Text(Str(html)))

\* Event::Start(tag): build the element of the tag and push it.
StartStep(st, rt, tag) == [stack |-> Append(st, StartNode(tag)), root |-> rt]

\* BreakStep that places the newline by the rule of plain text.
BreakStepAtRoot(st, rt) == Place(st, rt, Text("\n"))

\* Event::SoftBreak | Event::HardBreak: a newline Text, only under an open
\* element.
BreakStep(st, rt) ==
    IF st # <<>>
    THEN [stack |-> [st EXCEPT ![Len(st)] = PushChild(@, Text("\n"))],
          root |-> rt]
    ELSE [stack |-> st, root |-> rt]

\* The kind of an event.
Kind(ev) == ev[1]

\* EventStep with an arm for Event::Rule that places an hr element.
EventStepRule(st, rt, allowed, ev) ==
    CASE Kind(ev) = "Start" -> StartStep(st, rt, ev[2])
      [] Kind(ev) = "End" -> PopPlace(st, rt)
      [] Kind(ev) = "Text" -> Place(st, rt, Text(ev[2]))
      [] Kind(ev) = "Code" -> Place(st, rt, CodeNode(ev[2]))
      [] Kind(ev) = "FootnoteReference" -> Place(st, rt, FootnoteRefNode(ev[2]))
      [] Kind(ev) \in {"Html", "InlineHtml"} -> HtmlStep(st, rt, allowed, ev[2])
      [] Kind(ev) \in {"SoftBreak", "HardBreak"} -> BreakStep(st, rt)
      [] Kind(ev) = "Rule" -> Place(st, rt, Element("hr", EmptyProps, <<>>))
      [] OTHER -> [stack |-> st, root |-> rt]

\* match event { ... }: the stack and the root forest after one iteration of
\* the loop on ev.
EventStep(st, rt, allowed, ev) ==
    CASE Kind(ev) = "Start" -> StartStep(st, rt, ev[2])
      [] Kind(ev) = "End" -> PopPlace(st, rt)
      [] Kind(ev) = "Text" -> Place(st, rt, Text(ev[2]))
      [] Kind(ev) = "Code" -> Place(st, rt, CodeNode(ev[2]))
      [] Kind(ev) = "FootnoteReference" -> Place(st, rt, FootnoteRefNode(ev[2]))
      [] Kind(ev) \in {"Html", "InlineHtml"} -> HtmlStep(st, rt, allowed, ev[2])
      [] Kind(ev) \in {"SoftBreak", "HardBreak"} -> BreakStep(st, rt)
      [] OTHER -> [stack |-> st, root |-> rt]

\* One iteration of the loop: the parser delivers ev and its arm runs.
Handle(ev) ==
    /\ pc = "loop"
    /\ consumed' = Append(consumed, ev)
    /\ stack' = EventStep(stack, root, allowed_tags, ev).stack
    /\ root' = EventStep(stack, root, allowed_tags, ev).root
    /\ UNCHANGED <<allowed_tags, pc, result>>

\* Event::Start(tag)
HandleStart(tag) == Handle(<<"Start", tag>>)

\* Event::End(_)
HandleEnd == Handle(<<"End">>)

\* Event::Text(text)
HandleText(text) == Handle(<<"Text", text>>)

\* Event::Code(code)
HandleCode(code) == Handle(<<"Code", code>>)

\* Event::FootnoteReference(label)
HandleFootnoteReference(label) == Handle(<<"FootnoteReference", label>>)

\* Event::Html(html) | Event::InlineHtml(html)
HandleHtml(kind, html) == Handle(<<kind, html>>)

\* Event::SoftBreak | Event::HardBreak
HandleBreak(kind) == Handle(<<kind>>)

\* _ => {}
HandleOther(ev) == Handle(ev)

\* Return that flushes the elements still open into the returned forest.
ReturnFlush ==
    /\ pc = "loop"
    /\ pc' = "done"
    /\ result' = root \o stack
    /\ UNCHANGED <<allowed_tags, stack, root, consumed>>

\* The parser is exhausted: parse returns root and drops the stack (the
\* variable stack keeps the value it had when the loop ended).
Return ==
    /\ pc = "loop"
    /\ pc' = "done"
    /\ result' = root
    /\ UNCHANGED <<allowed_tags, stack, root, consumed>>

\* ------------------------------------------------------------- inputs
\* Raw HTML fragments, as the event source delivers them.
FragOpenA == <<"<", "A", ">">>
FragCloseA == <<"<", "/", "A", ">">>
FragOpenF == <<"<", "F", ">">>
FragCloseF == <<"<", "/", "F", ">">>
FragSelfB == <<"<", "B", "/", ">">>
FragSelfF == <<"<", "F", " ", "/", ">">>
FragVideo == <<"<", "V", " ", "s", "=", "\"", "x", "\"", " ", "/", ">">>
FragCloseB == <<"<", "/", "B", ">">>
FragLowerB == <<"<", "b", "/", ">">>
FragOpenALine == <<"<", "A", ">", "\n">>
FragIndentCloseA == <<" ", "<", "/", "A", ">">>
FragSpacedCloseA == <<"<", "/", " ", "A", " ", ">">>
FragComment == <<"<", "!", "-", "-", ">">>
FragFlagA == <<"<", "A", " ", "k", ">">>
FragDupA == <<"<", "A", " ", "k", "=", "v", " ", "k", "=", "'", "w", "'", ">">>

NarrowFragments == {FragOpenA, FragCloseA, FragOpenF, FragSelfB}

WideFragments ==
    {FragOpenA, FragCloseA, FragOpenF, FragCloseF, FragSelfB, FragSelfF,
     FragVideo, FragCloseB, FragLowerB, FragOpenALine, FragIndentCloseA,
     FragSpacedCloseA, FragComment, FragFlagA, FragDupA}

\* Fragments delivered as lines of an HTML block: they may be indented and
\* end with the line break.
BlockFragments == {FragOpenALine, FragIndentCloseA, FragCloseA, FragVideo}

\* pulldown_cmark::Tag values: the variant and the payload parse reads.
NamedTags ==
    {<<"Heading", l>> : l \in 1..6}
    \cup {<<"Paragraph">>, <<"Emphasis">>, <<"Strong">>, <<"Link", "u">>,
          <<"List", TRUE>>, <<"List", FALSE>>, <<"Item">>, <<"Table">>,
          <<"TableHead">>, <<"TableRow">>, <<"TableCell">>,
          <<"Strikethrough">>, <<"FootnoteDefinition", "1">>}

\* Tag variants that parse does not name.
UnnamedTags == {<<"BlockQuote">>, <<"CodeBlock">>, <<"HtmlBlock">>, <<"Image">>}

\* pulldown_cmark::Event variants that parse does not name.
OtherEvents == {<<"Rule">>, <<"TaskListMarker", TRUE>>}

\* The inputs of the narrow specification: few kinds, longer passes.
Narrow ==
    [max |-> MaxEvents,
     tags |-> {<<"Paragraph">>, <<"Emphasis">>},
     texts |-> {"Keep"},
     codes |-> {"x"},
     labels |-> {"1"},
     html |-> {<<"InlineHtml", f>> : f \in NarrowFragments},
     breaks |-> {"SoftBreak"},
     others |-> {<<"Rule">>}]

\* The inputs of the wide specification: every kind, short passes.
Wide ==
    [max |-> MaxWideEvents,
     tags |-> NamedTags \cup UnnamedTags,
     texts |-> {"Keep"},
     codes |-> {"x"},
     labels |-> {"1"},
     html |-> {<<"InlineHtml", f>> : f \in WideFragments}
              \cup {<<"Html", f>> : f \in BlockFragments},
     breaks |-> {"SoftBreak", "HardBreak"},
     others |-> OtherEvents]

AllowLists == {{}, {"A", "B", "V"}}

\* The state of parse before the loop.
Init ==
    /\ allowed_tags \in AllowLists
    /\ stack = <<>>
    /\ root = <<>>
    /\ consumed = <<>>
    /\ pc = "loop"
    /\ result = <<>>

\* The parser has another event to deliver.
More(U) == Len(consumed) < U.max

\* One step of parse over the inputs U: an iteration of the loop on the next
\* event, or the return when the parser is exhausted.
Step(U) ==
    \/ \E tag \in U.tags : More(U) /\ HandleStart(tag)
    \/ More(U) /\ HandleEnd
    \/ \E text \in U.texts : More(U) /\ HandleText(text)
    \/ \E code \in U.codes : More(U) /\ HandleCode(code)
    \/ \E label \in U.labels : More(U) /\ HandleFootnoteReference(label)
    \/ \E ev \in U.html : More(U) /\ HandleHtml(ev[1], ev[2])
    \/ \E kind \in U.breaks : More(U) /\ HandleBreak(kind)
    \/ \E ev \in U.others : More(U) /\ HandleOther(ev)
    \/ Return

Next == Step(Narrow)

Spec == Init /\ [][Next]_vars

NextWide == Step(Wide)

SpecWide == Init /\ [][NextWide]_vars

\* ----------------------------------------------------------- tree helpers
RECURSIVE Nodes(_)
\* Every node of a forest, at any depth, in pre-order.
Nodes(forest) ==
    IF forest = <<>>
    THEN <<>>
    ELSE LET n == Head(forest)
         IN  <<n>>
             \o (IF n.type = "element" THEN Nodes(n.children) ELSE <<>>)
             \o Nodes(Tail(forest))

\* The tags of the Elements of a forest.
ElementTags(forest) ==
    LET ns == Nodes(forest)
    IN  {ns[i].tag : i \in {j \in 1..Len(ns) : ns[j].type = "element"}}

\* The contents of the Text nodes of a forest.
TextContents(forest) ==
    LET ns == Nodes(forest)
    IN  {ns[i].content : i \in {j \in 1..Len(ns) : ns[j].type = "text"}}

\* The tags the builder emits by itself.
FixedTags ==
    {"h1", "h2", "h3", "h4", "h5", "h6", "p", "em", "strong", "a", "ol", "ul",
     "li", "table", "thead", "tr", "td", "del", "div", "code", "sup"}

\* ------------------------------------------------------------------ C2
\* C2: at every moment of the pass and in the returned forest, every Element
\* on the stack or anywhere in the forest has a tag that is one of the fixed
\* tags of the builder or an exact member of the allow-list.
C2_OnlyAllowedTags ==
    ElementTags(stack) \cup ElementTags(root) \cup ElementTags(result)
        \subseteq FixedTags \cup allowed_tags

\* A returned forest with a promoted allow-listed tag next to a rejected
\* fragment kept as text.
C2_Witness ==
    /\ pc = "done"
    /\ "B" \in ElementTags(result)
    /\ "<F>" \in TextContents(result)

\* ------------------------------------------------------------------ C1
RECURSIVE DepthAfter(_)
\* Starts minus ends of a sequence of events.
DepthAfter(evs) ==
    IF evs = <<>>
    THEN 0
    ELSE DepthAfter(SubSeq(evs, 1, Len(evs) - 1))
         + (CASE Kind(evs[Len(evs)]) = "Start" -> 1
              [] Kind(evs[Len(evs)]) = "End" -> -1
              [] OTHER -> 0)

\* Every end event closes a start event before it and every start is closed.
WellNested(evs) ==
    /\ \A i \in 1..Len(evs) : DepthAfter(SubSeq(evs, 1, i)) >= 0
    /\ DepthAfter(evs) = 0

\* Start/end events with only text, code spans, footnote references and
\* line breaks in between.
StructuralKinds ==
    {"Start", "End", "Text", "Code", "FootnoteReference", "SoftBreak",
     "HardBreak"}

RECURSIVE OpenedBy(_, _)
\* For each start event of evs in order: the tag and props of its element
\* and the nesting depth implied by the starts and ends before it.
OpenedBy(evs, i) ==
    IF i > Len(evs)
    THEN <<>>
    ELSE (IF Kind(evs[i]) = "Start"
          THEN <<[tag |-> StartNode(evs[i][2]).tag,
                  props |-> StartNode(evs[i][2]).props,
                  depth |-> DepthAfter(SubSeq(evs, 1, i - 1))]>>
          ELSE <<>>)
         \o OpenedBy(evs, i + 1)

RECURSIVE OpenedIn(_, _)
\* The elements of a forest in pre-order with their depth, the complete units
\* code and sup (never opened by a start event) left out.
OpenedIn(forest, d) ==
    IF forest = <<>>
    THEN <<>>
    ELSE LET n == Head(forest)
         IN  (IF n.type = "element" /\ n.tag \notin {"code", "sup"}
              THEN <<[tag |-> n.tag, props |-> n.props, depth |-> d]>>
                   \o OpenedIn(n.children, d + 1)
              ELSE <<>>)
             \o OpenedIn(Tail(forest), d)

\* C1: after a well-nested sequence of start/end events with text, code-span,
\* footnote-reference and line-break events in between, the stack is empty
\* and every element opened by a start event appears exactly once in the
\* returned forest, in document order, at the depth its start/end pair
\* implies.
C1_WellNestedForest ==
    (/\ pc = "done"
     /\ \A i \in 1..Len(consumed) : Kind(consumed[i]) \in StructuralKinds
     /\ WellNested(consumed))
    => /\ stack = <<>>
       /\ OpenedIn(result, 0) = OpenedBy(consumed, 1)

\* A nested pair: a paragraph holding an emphasis.
C1_Witness ==
    /\ pc = "done"
    /\ consumed = <<<<"Start", <<"Paragraph">>>>, <<"Start", <<"Emphasis">>>>,
                    <<"End">>, <<"End">>>>
    /\ result = <<Element("p", EmptyProps,
                          <<Element("em", EmptyProps, <<>>)>>)>>

\* ------------------------------------------------- steps and placement
\* The step is an iteration of the loop.
Handled == Len(consumed') = Len(consumed) + 1

\* The event the step handles.
NewEvent == consumed'[Len(consumed')]

\* The step handles a raw HTML fragment (block or inline).
HandledHtml == Handled /\ Kind(NewEvent) \in {"Html", "InlineHtml"}

\* The placement rule, as a step: node becomes the last child of the
\* innermost open element, or the last root when no element is open; nothing
\* else changes and the stack keeps its depth.
PlacedAsUnit(node) ==
    IF stack = <<>>
    THEN stack' = <<>> /\ root' = Append(root, node)
    ELSE /\ root' = root
         /\ Len(stack') = Len(stack)
         /\ \A i \in 1..(Len(stack) - 1) : stack'[i] = stack[i]
         /\ stack'[Len(stack)].tag = stack[Len(stack)].tag
         /\ stack'[Len(stack)].props = stack[Len(stack)].props
         /\ stack'[Len(stack)].children
                = Append(stack[Len(stack)].children, node)

\* The last event handled.
Last == consumed[Len(consumed)]

\* ------------------------------------------------------------------ C3
\* The fragment matches the opening/self-closing grammar of the recognizer.
IsOpeningForm(html) == TagReCaptures(Trim(html)).matched

\* C3: a raw HTML fragment that the recognizer does not recognize, or that
\* it recognizes as an opening or self-closing tag whose name is not in the
\* allow-list, yields exactly one Text node holding the whole fragment
\* verbatim, placed under the innermost open element or in the root forest,
\* and the stack depth is unchanged.
C3_RejectedBecomesText ==
    [][(/\ HandledHtml
        /\ \/ ~parse_html_tag(NewEvent[2]).some
           \/ /\ IsOpeningForm(NewEvent[2])
              /\ parse_html_tag(NewEvent[2]).tag_name \notin allowed_tags)
       => PlacedAsUnit(Text(Str(NewEvent[2])))]_vars

\* A self-closing tag outside the allow-list kept as text under an open
\* paragraph, the paragraph still open.
C3_Witness ==
    /\ consumed = <<<<"Start", <<"Paragraph">>>>, <<"InlineHtml", FragSelfF>>>>
    /\ stack = <<Element("p", EmptyProps, <<Text("<F />")>>)>>
    /\ root = <<>>

\* ------------------------------------------------------------------ C4
\* C4: a fragment recognized as a self-closing tag whose name is in the
\* allow-list yields one Element with the extracted name, the extracted
\* attribute map and no children, placed as a complete unit and never
\* pushed: the same elements are open before and after the event.
C4_SelfClosingIsUnit ==
    [][(/\ HandledHtml
        /\ IsOpeningForm(NewEvent[2])
        /\ parse_html_tag(NewEvent[2]).is_self_closing
        /\ parse_html_tag(NewEvent[2]).tag_name \in allowed_tags)
       => PlacedAsUnit(Element(parse_html_tag(NewEvent[2]).tag_name,
                               parse_html_tag(NewEvent[2]).props,
                               <<>>))]_vars

\* <V s="x" /> under an open paragraph with V allowed.
C4_Witness ==
    /\ consumed = <<<<"Start", <<"Paragraph">>>>, <<"Html", FragVideo>>>>
    /\ stack = <<Element("p", EmptyProps,
                         <<Element("V", [s |-> JsonString("x")], <<>>)>>)>>
    /\ root = <<>>

\* ------------------------------------------------------------------ C5
RECURSIVE Run(_, _, _, _)
\* The loop of parse over the events evs from the stack st and the forest rt.
Run(st, rt, allowed, evs) ==
    IF evs = <<>>
    THEN [stack |-> st, root |-> rt]
    ELSE LET n == EventStep(st, rt, allowed, Head(evs))
         IN  Run(n.stack, n.root, allowed, Tail(evs))

\* ev is a raw HTML fragment that opens an allowed, not self-closing tag.
OpensTag(ev, allowed) ==
    /\ Kind(ev) \in {"Html", "InlineHtml"}
    /\ IsOpeningForm(ev[2])
    /\ ~parse_html_tag(ev[2]).is_self_closing
    /\ parse_html_tag(ev[2]).tag_name \in allowed

\* ev is the raw HTML fragment </name> of an allowed tag.
ClosesTag(ev, allowed) ==
    /\ Kind(ev) \in {"Html", "InlineHtml"}
    /\ \E name \in allowed : Str(ev[2]) = "</" \o name \o ">"

RECURSIVE Balance(_, _)
\* Constructs and allowed tags opened minus those closed by evs.
Balance(evs, allowed) ==
    IF evs = <<>>
    THEN 0
    ELSE LET ev == evs[Len(evs)]
         IN  Balance(SubSeq(evs, 1, Len(evs) - 1), allowed)
             + (CASE Kind(ev) = "Start" \/ OpensTag(ev, allowed) -> 1
                  [] Kind(ev) = "End" \/ ClosesTag(ev, allowed) -> -1
                  [] OTHER -> 0)

\* evs closes only what it opened and leaves nothing open.
Balanced(evs, allowed) ==
    /\ \A i \in 1..Len(evs) : Balance(SubSeq(evs, 1, i), allowed) >= 0
    /\ Balance(evs, allowed) = 0

\* The stack and forest with node as last child of the innermost open
\* element of st, or as last root when st is empty.
Under(st, rt, node) ==
    IF st = <<>>
    THEN [stack |-> st, root |-> rt \o <<node>>]
    ELSE [stack |-> [i \in 1..Len(st) |->
                        IF i = Len(st)
                        THEN [st[i] EXCEPT !.children = @ \o <<node>>]
                        ELSE st[i]],
          root |-> rt]

\* The state of the pass after the first n events, told by its history.
StateAfter(n) == Run(<<>>, <<>>, allowed_tags, SubSeq(consumed, 1, n))

\* C5: for an allowed tag T, <T ...> followed by a well-nested sequence of
\* events followed by </T> yields one Element T whose children are the nodes
\* the enclosed events produce, in order, placed in the element that was
\* innermost before <T> (or the root forest), with the stack back to what it
\* was before <T>.
C5_OpenCloseWraps ==
    \A i \in 1..Len(consumed) :
        LET n     == Len(consumed)
            mid   == SubSeq(consumed, i + 1, n - 1)
            tag   == parse_html_tag(consumed[i][2])
            alone == Run(<<Element(tag.tag_name, tag.props, <<>>)>>, <<>>,
                         allowed_tags, mid)
        IN  (/\ i < n
             /\ OpensTag(consumed[i], allowed_tags)
             /\ Kind(Last) \in {"Html", "InlineHtml"}
             /\ Str(Last[2]) = "</" \o tag.tag_name \o ">"
             /\ Balanced(mid, allowed_tags))
            => /\ Len(alone.stack) = 1
               /\ alone.root = <<>>
               /\ alone.stack[1].tag = tag.tag_name
               /\ stack = Under(StateAfter(i - 1).stack, StateAfter(i - 1).root,
                                alone.stack[1]).stack
               /\ root = Under(StateAfter(i - 1).stack, StateAfter(i - 1).root,
                               alone.stack[1]).root
               /\ Len(stack) = Len(StateAfter(i - 1).stack)

\* <A>Keep</A> inside an open paragraph: the paragraph is the top again and
\* holds A, which holds the text.
C5_Witness ==
    /\ consumed = <<<<"Start", <<"Paragraph">>>>, <<"InlineHtml", FragOpenA>>,
                    <<"Text", "Keep">>, <<"InlineHtml", FragCloseA>>>>
    /\ stack = <<Element("p", EmptyProps,
                         <<Element("A", EmptyProps, <<Text("Keep")>>)>>)>>
    /\ root = <<>>

\* ------------------------------------------------------------------ C6
\* The recognizer reports the fragment as a closing tag.
IsClosingForm(html) == parse_html_tag(html).some /\ ~IsOpeningForm(html)

\* The step of an end-of-construct event: the top of the stack is popped and
\* becomes the last root when the stack is then empty, the last child of the
\* new top otherwise; nothing happens on an empty stack.
PoppedLikeEnd ==
    IF stack = <<>>
    THEN stack' = <<>> /\ root' = root
    ELSE IF Len(stack) = 1
    THEN stack' = <<>> /\ root' = root \o <<stack[1]>>
    ELSE /\ root' = root
         /\ Len(stack') = Len(stack) - 1
         /\ \A i \in 1..(Len(stack) - 2) : stack'[i] = stack[i]
         /\ stack'[Len(stack) - 1] =
                [stack[Len(stack) - 1] EXCEPT
                    !.children = @ \o <<stack[Len(stack)]>>]

\* C6 as stated: every fragment reported as a closing tag pops the stack and
\* places the popped node as an end event does, whatever its name and
\* whatever the allow-list.
C6_EveryClosingTagPops ==
    [][(HandledHtml /\ IsClosingForm(NewEvent[2])) => PoppedLikeEnd]_vars

\* C6 amended: a fragment reported as a closing tag pops the stack and places
\* the popped node as an end event does exactly when its name is in the
\* allow-list and the fragment as delivered begins with "</"; the name is not
\* compared with the element closed.  With a name outside the allow-list the
\* fragment becomes an opaque Text node; otherwise nothing is popped.
C6_AllowedClosingTagPops ==
    [][(HandledHtml /\ IsClosingForm(NewEvent[2]))
       => IF parse_html_tag(NewEvent[2]).tag_name \notin allowed_tags
          THEN PlacedAsUnit(Text(Str(NewEvent[2])))
          ELSE IF StartsWithClose(NewEvent[2])
          THEN PoppedLikeEnd
          ELSE Len(stack') >= Len(stack)]_vars

\* </B> closes an open paragraph: the names differ and the paragraph goes to
\* the root forest.
C6_Witness ==
    /\ consumed = <<<<"Start", <<"Paragraph">>>>, <<"InlineHtml", FragCloseB>>>>
    /\ "B" \in allowed_tags
    /\ stack = <<>>
    /\ root = <<Element("p", EmptyProps, <<>>)>>

\* ------------------------------------------------------------------ C7
\* C7: when the event stream ends with a non-empty stack, the nodes on the
\* stack are discarded with everything under them: the returned forest is
\* exactly the root forest as it stood after the last event.
C7_OpenNodesDiscarded ==
    [][(pc = "loop" /\ pc' = "done")
       => /\ result' = root
          /\ result' = StateAfter(Len(consumed)).root
          /\ Len(Nodes(result')) = Len(Nodes(root))]_vars

\* A pass that ends inside a paragraph: the text before it is returned, the
\* paragraph and its text are not.
C7_Witness ==
    /\ pc = "done"
    /\ consumed = <<<<"Text", "Keep">>, <<"Start", <<"Paragraph">>>>,
                    <<"Text", "Keep">>>>
    /\ stack = <<Element("p", EmptyProps, <<Text("Keep")>>)>>
    /\ result = <<Text("Keep")>>

\* ------------------------------------------------------------------ C8
RECURSIVE WellFormed(_)
\* A forest of Text and Element nodes, all the way down.
WellFormed(forest) ==
    \A i \in 1..Len(forest) :
        \/ /\ forest[i].type = "text"
           /\ DOMAIN forest[i] = {"type", "content"}
        \/ /\ forest[i].type = "element"
           /\ DOMAIN forest[i] = {"type", "tag", "props", "children"}
           /\ WellFormed(forest[i].children)

\* The step pushes one new childless element and changes nothing else.
Pushed ==
    /\ root' = root
    /\ Len(stack') = Len(stack) + 1
    /\ SubSeq(stack', 1, Len(stack)) = stack
    /\ stack'[Len(stack')].type = "element"
    /\ stack'[Len(stack')].children = <<>>

\* The step appends one node under the placement rule.
Appended ==
    IF stack = <<>>
    THEN stack' = <<>> /\ Len(root') = Len(root) + 1
         /\ PlacedAsUnit(root'[Len(root')])
    ELSE Len(stack') = Len(stack)
         /\ Len(stack'[Len(stack)].children)
                = Len(stack[Len(stack)].children) + 1
         /\ PlacedAsUnit(stack'[Len(stack)].children[
                            Len(stack'[Len(stack)].children)])

\* The step leaves the stack and the forest as they were.
Dropped == stack' = stack /\ root' = root

\* C8: parse handles every event of every sequence, in order, and returns a
\* forest; no event aborts the pass: each one pushes or appends a node
\* (an opaque Text node for rejected HTML, the popped node for an end), or is
\* dropped with stack and forest unchanged.
C8_NoFallibleOutcome ==
    /\ [](pc = "loop" => ENABLED Return)
    /\ [](WellFormed(stack) /\ WellFormed(root) /\ WellFormed(result))
    /\ [](pc = "done" => result = StateAfter(Len(consumed)).root)
    /\ [][Handled =>
            (\/ Pushed
             \/ Appended
             \/ (stack # <<>> /\ PoppedLikeEnd)
             \/ Dropped)]_vars

\* A returned pass that saw a text fallback and a dropped event.
C8_Witness ==
    /\ pc = "done"
    /\ allowed_tags = {}
    /\ consumed = <<<<"InlineHtml", FragOpenF>>, <<"Rule">>>>
    /\ result = <<Text("<F>")>>

\* ------------------------------------------------------------------ C9
\* C9: a footnote reference with label L is placed as one complete unit,
\* never pushed: sup without props, holding a with href "#fn-L" and the class
\* marker footnote-ref, holding Text(L); the start of a footnote definition
\* with label L pushes a div with id "fn-L" and class footnote-definition.
C9_FootnoteShapes ==
    [][/\ (Handled /\ Kind(NewEvent) = "FootnoteReference")
          => PlacedAsUnit(
                [type |-> "element", tag |-> "sup", props |-> EmptyProps,
                 children |->
                    <<[type |-> "element", tag |-> "a",
                       props |-> [href |-> JsonString("#fn-" \o NewEvent[2]),
                                  className |-> JsonString("footnote-ref")],
                       children |->
                          <<[type |-> "text", content |-> NewEvent[2]]>>]>>])
       /\ (/\ Handled
           /\ Kind(NewEvent) = "Start"
           /\ NewEvent[2][1] = "FootnoteDefinition")
          => /\ root' = root
             /\ stack' = stack \o
                   <<[type |-> "element", tag |-> "div",
                      props |-> [id |-> JsonString("fn-" \o NewEvent[2][2]),
                                 className |-> JsonString("footnote-definition")],
                      children |-> <<>>]>>]_vars

\* A reference to footnote 1 inside the open definition of footnote 1.
C9_Witness ==
    /\ consumed = <<<<"Start", <<"FootnoteDefinition", "1">>>>,
                    <<"FootnoteReference", "1">>>>
    /\ Len(stack) = 1
    /\ stack[1].tag = "div"
    /\ stack[1].props["id"] = JsonString("fn-1")
    /\ Len(stack[1].children) = 1
    /\ stack[1].children[1].tag = "sup"
    /\ stack[1].children[1].children[1].props["href"] = JsonString("#fn-1")

\* ------------------------------------------------------------------ C10
\* The tag the static mapping gives to a construct.
MappedTag(tag) ==
    CASE tag[1] = "Heading" -> <<"h1", "h2", "h3", "h4", "h5", "h6">>[tag[2]]
      [] tag[1] = "Paragraph" -> "p"
      [] tag[1] = "Emphasis" -> "em"
      [] tag[1] = "Strong" -> "strong"
      [] tag[1] = "Link" -> "a"
      [] tag[1] = "List" /\ tag[2] -> "ol"
      [] tag[1] = "List" /\ ~tag[2] -> "ul"
      [] tag[1] = "Item" -> "li"
      [] tag[1] = "Table" -> "table"
      [] tag[1] = "TableHead" -> "thead"
      [] tag[1] = "TableRow" -> "tr"
      [] tag[1] = "TableCell" -> "td"
      [] tag[1] = "Strikethrough" -> "del"
      [] tag[1] = "FootnoteDefinition" -> "div"
      [] OTHER -> "div"

\* The props a construct carries into its element.
MappedProps(tag) ==
    CASE tag[1] = "Link" -> [href |-> JsonString(tag[2])]
      [] tag[1] = "FootnoteDefinition" ->
            [id |-> JsonString("fn-" \o tag[2]),
             className |-> JsonString("footnote-definition")]
      [] OTHER -> EmptyProps

\* C10: every start event pushes exactly one new Element with no children,
\* its tag given by the static mapping of the construct kind (every construct
\* not named maps to div), its props empty except for a link and a footnote
\* definition; the inline text of a heading becomes a Text child of h<N>.
C10_StartMapping ==
    [][/\ (Handled /\ Kind(NewEvent) = "Start")
          => /\ root' = root
             /\ stack' = stack \o
                   <<[type |-> "element", tag |-> MappedTag(NewEvent[2]),
                      props |-> MappedProps(NewEvent[2]),
                      children |-> <<>>]>>
       /\ (/\ Handled
           /\ Kind(NewEvent) = "Text"
           /\ consumed # <<>>
           /\ Kind(Last) = "Start"
           /\ Last[2][1] = "Heading")
          => stack'[Len(stack')] =
                [type |-> "element", tag |-> MappedTag(Last[2]),
                 props |-> EmptyProps,
                 children |-> <<[type |-> "text", content |-> NewEvent[2]]>>]
      ]_vars

\* A level-3 heading with its text, still open.
C10_Witness ==
    /\ consumed = <<<<"Start", <<"Heading", 3>>>>, <<"Text", "Keep">>>>
    /\ stack = <<Element("h3", EmptyProps, <<Text("Keep")>>)>>

\* ------------------------------------------------------------------ C11
\* A node without its children: what tells it from the other nodes.
HeadOf(n) ==
    IF n.type = "element"
    THEN <<"element", n.tag, n.props>>
    ELSE <<"text", n.content>>

\* The nodes of a forest in pre-order, each without its children.
Heads(forest) == [i \in 1..Len(Nodes(forest)) |-> HeadOf(Nodes(forest)[i])]

RECURSIVE OpenHeads(_)
\* The nodes held by the stack in pre-order, each open element being the
\* last child to come of the one below it.
OpenHeads(st) ==
    IF st = <<>>
    THEN <<>>
    ELSE <<HeadOf(Head(st))>> \o Heads(Head(st).children) \o OpenHeads(Tail(st))

\* The nodes the i-th event of the pass constructs and keeps, in the order
\* of their construction: a start event and an allowed opening tag their
\* element, a text its Text, a code span and a footnote reference their unit,
\* a rejected or unrecognized fragment its Text, a line break its newline
\* when an element is open; an end, a closing tag and any other event none.
CreatedBy(i) ==
    LET ev == consumed[i]
        r  == parse_html_tag(ev[2])
    IN  CASE Kind(ev) = "Start" ->
                <<<<"element", MappedTag(ev[2]), MappedProps(ev[2])>>>>
          [] Kind(ev) = "Text" -> <<<<"text", ev[2]>>>>
          [] Kind(ev) = "Code" ->
                <<<<"element", "code", EmptyProps>>, <<"text", ev[2]>>>>
          [] Kind(ev) = "FootnoteReference" ->
                <<<<"element", "sup", EmptyProps>>,
                  <<"element", "a",
                    [href |-> JsonString("#fn-" \o ev[2]),
                     className |-> JsonString("footnote-ref")]>>,
                  <<"text", ev[2]>>>>
          [] Kind(ev) \in {"Html", "InlineHtml"} ->
                IF r.some /\ r.tag_name \in allowed_tags
                THEN IF StartsWithClose(ev[2])
                     THEN <<>>
                     ELSE <<<<"element", r.tag_name, r.props>>>>
                ELSE <<<<"text", Str(ev[2])>>>>
          [] Kind(ev) \in {"SoftBreak", "HardBreak"} ->
                IF StateAfter(i - 1).stack # <<>>
                THEN <<<<"text", "\n">>>>
                ELSE <<>>
          [] OTHER -> <<>>

RECURSIVE Created(_)
\* The nodes the first n events construct, in the order of the events.
Created(n) == IF n = 0 THEN <<>> ELSE Created(n - 1) \o CreatedBy(n)

\* C11: children order is document order: at every moment the pre-order
\* traversal of the forest and of the open elements lists the nodes in the
\* order of the events that created them, and the pre-order traversal of the
\* returned forest lists its nodes in that same order, none reordered.
C11_DocumentOrder ==
    /\ Heads(root) \o OpenHeads(stack) = Created(Len(consumed))
    /\ pc = "done" =>
          Heads(result) = SubSeq(Created(Len(consumed)), 1, Len(Nodes(result)))

\* A returned paragraph holding a text and then a code span, in the order of
\* their events.
C11_Witness ==
    /\ pc = "done"
    /\ Len(result) = 1
    /\ result[1].type = "element"
    /\ result[1].tag = "p"
    /\ Len(result[1].children) = 2
    /\ result[1].children[1] = Text("Keep")
    /\ result[1].children[2].type = "element"
    /\ result[1].children[2].tag = "code"

\* ------------------------------------------------------------------ C12
\* Number of attributes of a generated opening tag.
MaxAttrs == 2

\* Attributes as they are written in a tag, each after a blank, with the key
\* and the value they stand for.
AttrTokens ==
    {[text |-> <<" ", "k">>, key |-> "k", value |-> JsonTrue],
     [text |-> <<" ", "k", "=", "v">>, key |-> "k", value |-> JsonString("v")],
     [text |-> <<" ", "k", "=", "\"", "a", " ", "b", "\"">>,
      key |-> "k", value |-> JsonString("a b")],
     [text |-> <<" ", "k", "=", "'", "w", "'">>,
      key |-> "k", value |-> JsonString("w")],
     [text |-> <<" ", "j">>, key |-> "j", value |-> JsonTrue],
     [text |-> <<" ", "j", "=", "v">>, key |-> "j", value |-> JsonString("v")],
     [text |-> <<" ", "j", "=", "\"", "\"">>,
      key |-> "j", value |-> JsonString("")],
     [text |-> <<" ", "j", "=", "'", "a", "\"", "b", "'">>,
      key |-> "j", value |-> JsonString("a\"b")]}

\* The attribute lists of the generated tags.
AttrLists == UNION {[1..n -> AttrTokens] : n \in 0..MaxAttrs}

RECURSIVE AttrText(_)
\* The attribute region of a tag as written.
AttrText(toks) ==
    IF toks = <<>> THEN <<>> ELSE Head(toks).text \o AttrText(Tail(toks))

\* The tag <A attr* /?> as written.
TagText(toks, selfClosing) ==
    <<"<", "A">> \o AttrText(toks)
        \o (IF selfClosing THEN <<"/">> ELSE <<>>) \o <<">">>

\* The generated opening and self-closing tags.
AttrFragments == {TagText(toks, sc) : toks \in AttrLists, sc \in BOOLEAN}

\* A pass over one generated tag.
NextAttrs ==
    \/ \E html \in AttrFragments :
            consumed = <<>> /\ HandleHtml("InlineHtml", html)
    \/ Return

SpecAttrs == Init /\ [][NextAttrs]_vars

\* The map the attributes toks stand for: one entry per distinct key, the
\* last occurrence of a key giving its value.
MapOf(toks) ==
    [key \in {toks[i].key : i \in 1..Len(toks)} |->
        toks[CHOOSE i \in 1..Len(toks) :
                /\ toks[i].key = key
                /\ \A j \in (i + 1)..Len(toks) : toks[j].key # key].value]

\* C12: for a fragment of the opening/self-closing grammar the attribute map
\* of the recognizer has one entry per distinct key: true for a key without
\* =value, the value as a string for a double-quoted, single-quoted or bare
\* value, the last occurrence winning when a key occurs more than once.
C12_AttributeMap ==
    consumed # <<>> =>
        \A toks \in AttrLists, sc \in BOOLEAN :
            Last[2] = TagText(toks, sc) =>
                /\ parse_html_tag(Last[2]).some
                /\ parse_html_tag(Last[2]).tag_name = "A"
                /\ parse_html_tag(Last[2]).is_self_closing = sc
                /\ parse_html_tag(Last[2]).props = MapOf(toks)

\* <A k=v k='w'> promoted with the single entry k = "w".
C12_Witness ==
    /\ consumed = <<<<"InlineHtml",
                      <<"<", "A", " ", "k", "=", "v", " ", "k", "=", "'", "w",
                        "'", ">">>>>>>
    /\ stack = <<Element("A", [k |-> JsonString("w")], <<>>)>>

\* ------------------------------------------------------------------ C14
\* The step handles a raw HTML fragment that the builder takes as a closing
\* tag: recognized, allowed, and beginning with "</".
HandledPoppingTag ==
    /\ HandledHtml
    /\ parse_html_tag(NewEvent[2]).some
    /\ parse_html_tag(NewEvent[2]).tag_name \in allowed_tags
    /\ StartsWithClose(NewEvent[2])

\* C14: an end event, and a popping closing tag, on an empty stack is a
\* no-op; on a non-empty stack the popped node goes to the root forest if the
\* stack becomes empty and otherwise becomes the last child of the new top.
C14_PopPlacement ==
    [][((Handled /\ Kind(NewEvent) = "End") \/ HandledPoppingTag)
       => IF stack = <<>>
          THEN stack' = <<>> /\ root' = root
          ELSE IF Len(stack) = 1
          THEN stack' = <<>> /\ root' = root \o <<stack[1]>>
          ELSE /\ root' = root
               /\ stack' = [i \in 1..(Len(stack) - 1) |->
                               IF i = Len(stack) - 1
                               THEN [stack[i] EXCEPT
                                        !.children = @ \o <<stack[Len(stack)]>>]
                               ELSE stack[i]]]_vars

\* An end on the empty stack did nothing; later the emphasis was popped into
\* the open paragraph by </A>.
C14_Witness ==
    /\ consumed = <<<<"End">>, <<"Start", <<"Paragraph">>>>,
                    <<"Start", <<"Emphasis">>>>, <<"InlineHtml", FragCloseA>>>>
    /\ "A" \in allowed_tags
    /\ stack = <<Element("p", EmptyProps,
                         <<Element("em", EmptyProps, <<>>)>>)>>
    /\ root = <<>>

\* ------------------------------------------------------------------ C15
\* C15: a soft or hard line break appends a Text node holding one newline as
\* the last child of the innermost open element; with no element open it
\* leaves the stack and the root forest unchanged.  Plain text and inline
\* code are appended to the root forest when the stack is empty.
C15_BreakPlacement ==
    [][/\ (Handled /\ Kind(NewEvent) \in {"SoftBreak", "HardBreak"})
          => IF stack = <<>>
             THEN stack' = <<>> /\ root' = root
             ELSE PlacedAsUnit([type |-> "text", content |-> "\n"])
       /\ (Handled /\ Kind(NewEvent) = "Text" /\ stack = <<>>)
          => /\ stack' = <<>>
             /\ root' = root \o <<[type |-> "text", content |-> NewEvent[2]]>>
       /\ (Handled /\ Kind(NewEvent) = "Code" /\ stack = <<>>)
          => /\ stack' = <<>>
             /\ root' = root \o
                   <<[type |-> "element", tag |-> "code", props |-> EmptyProps,
                      children |->
                         <<[type |-> "text", content |-> NewEvent[2]]>>]>>
      ]_vars

\* A text at the root followed by a line break at the root: only the text is
\* in the forest.
C15_Witness ==
    /\ consumed = <<<<"Text", "Keep">>, <<"HardBreak">>>>
    /\ stack = <<>>
    /\ root = <<Text("Keep")>>

\* ------------------------------------------------------------------ C16
\* s is the beginning of t.
IsPrefix(s, t) == Len(s) <= Len(t) /\ SubSeq(t, 1, Len(s)) = s

\* C16: the root forest only grows at its end, and the only node whose
\* children change in a step is the top of the stack: the roots, the children
\* already placed and the open elements below the top stay as they are,
\* except that a pop appends the popped node, as it is, to the new top.
C16_OnlyTopChanges ==
    [][/\ IsPrefix(root, root')
       /\ Len(stack') >= Len(stack) =>
            /\ \A i \in 1..(Len(stack) - 1) : stack'[i] = stack[i]
            /\ stack # <<>> =>
                  /\ stack'[Len(stack)].tag = stack[Len(stack)].tag
                  /\ stack'[Len(stack)].props = stack[Len(stack)].props
                  /\ IsPrefix(stack[Len(stack)].children,
                              stack'[Len(stack)].children)
       /\ Len(stack') < Len(stack) =>
            /\ Len(stack') = Len(stack) - 1
            /\ \A i \in 1..(Len(stack) - 2) : stack'[i] = stack[i]
            /\ Len(stack) = 1 => root' = root \o <<stack[1]>>
            /\ Len(stack) > 1 =>
                  /\ root' = root
                  /\ stack'[Len(stack) - 1] =
                        [stack[Len(stack) - 1] EXCEPT
                            !.children = @ \o <<stack[Len(stack)]>>]
      ]_vars

\* An open paragraph that kept its text while it took a footnote reference
\* after it, the earlier root untouched.
C16_Witness ==
    /\ consumed = <<<<"Code", "x">>, <<"Start", <<"Paragraph">>>>,
                    <<"Text", "Keep">>, <<"FootnoteReference", "1">>>>
    /\ Len(root) = 1
    /\ Len(stack) = 1
    /\ Len(stack[1].children) = 2
    /\ stack[1].children[1] = Text("Keep")

\* ------------------------------------------------------------------ C17
\* C17: for a fragment that the recognizer reports as a closing tag, leading
\* or trailing white space included, the builder never constructs an Element
\* from the fragment and never makes the stack deeper.
C17_ClosingNeverOpens ==
    [][(HandledHtml /\ IsClosingForm(NewEvent[2]))
       => /\ Len(stack') <= Len(stack)
          /\ Len(Nodes(root')) + Len(Nodes(stack'))
                <= Len(Nodes(root)) + Len(Nodes(stack)) + 1
          /\ Len(Nodes(root')) + Len(Nodes(stack'))
                = Len(Nodes(root)) + Len(Nodes(stack)) + 1
             => PlacedAsUnit(Text(Str(NewEvent[2])))]_vars

\* ------------------------------------------------------------------ C18
\* C18: every entry of the open-node stack is an Element, never a Text, so
\* every node constructed while the stack is non-empty is kept: the nodes of
\* the forest and of the stack are as many as the events constructed.
C18_StackHoldsElements ==
    /\ \A i \in 1..Len(stack) : stack[i].type = "element"
    /\ Len(Nodes(root)) + Len(Nodes(stack)) = Len(Created(Len(consumed)))

\* An open paragraph that took the three nodes of a footnote reference.
C18_Witness ==
    /\ consumed = <<<<"Start", <<"Paragraph">>>>, <<"FootnoteReference", "1">>>>
    /\ Len(stack) = 1
    /\ stack[1].type = "element"
    /\ Len(Nodes(stack)) = 4

\* ------------------------------------------------------------------ C19
\* The kinds of event parse names.
EnumeratedKinds ==
    {"Start", "End", "Text", "Code", "FootnoteReference", "Html", "InlineHtml",
     "SoftBreak", "HardBreak"}

\* C19: an event of a kind outside the enumerated set, such as a horizontal
\* rule or a task-list marker, constructs no node and leaves the stack and
\* the root forest unchanged.
C19_OtherEventsIgnored ==
    [][(Handled /\ Kind(NewEvent) \notin EnumeratedKinds)
       => stack' = stack /\ root' = root]_vars

\* A rule inside an open paragraph left it childless.
C19_Witness ==
    /\ consumed = <<<<"Start", <<"Paragraph">>>>, <<"Rule">>>>
    /\ stack = <<Element("p", EmptyProps, <<>>)>>
    /\ root = <<>>

\* ------------------------------------------------------------------ C20
\* s is </name> with a name of one or more letters, digits and hyphens.
IsClosingTagText(s) ==
    /\ Len(s) >= 4
    /\ s[1] = "<"
    /\ s[2] = "/"
    /\ s[Len(s)] = ">"
    /\ \A i \in 3..(Len(s) - 1) : s[i] \in NameChars

\* s is <name attr* /?>: "<", a name, no ">" before the final ">".
IsOpeningTagText(s) ==
    /\ Len(s) >= 3
    /\ s[1] = "<"
    /\ s[2] \in NameChars
    /\ s[Len(s)] = ">"
    /\ \A i \in 2..(Len(s) - 1) : s[i] # ">"

\* C20: the recognizer reports a closing tag only for a fragment </name>
\* with an identifier name, an opening or self-closing tag only for a fragment
\* <name attr* /?>, and None for every other fragment, which then becomes
\* opaque text.
C20_RecognizerGrammar ==
    (consumed # <<>> /\ Kind(Last) \in {"Html", "InlineHtml"})
    => LET f == Trim(Last[2])
           r == parse_html_tag(Last[2])
       IN  /\ (r.some /\ ~IsOpeningForm(Last[2])) => IsClosingTagText(f)
           /\ (r.some /\ IsOpeningForm(Last[2])) => IsOpeningTagText(f)
           /\ (~IsClosingTagText(f) /\ ~IsOpeningTagText(f)) => ~r.some

====
